---- MODULE Spec2Model ----
(***************************************************************************)
(* Model of the HydroVision dashboard core: the table-level constraint     *)
(* check (constraints.py), the data access gateway (db.py) and the         *)
(* display loops of app.py (load_all_data, station dashboards with the     *)
(* row-level evaluator highlight_alerts, cross-station search).            *)
(*                                                                         *)
(* Measurements that carry decimals (volts, metres, mm, km/h, deg C) are   *)
(* kept as integers in hundredths: 10.5 is 1050, 0.01 is 1.                *)
(***************************************************************************)
EXTENDS Integers, Sequences, FiniteSets, TLC

VARIABLES
    cc_table,      \* check_constraints: argument table_name
    cc_df,         \* check_constraints: argument df
    cc_alerts,     \* check_constraints: returned list of messages
    cc_error,      \* check_constraints: exception that left the call, or ""
    station_name,  \* station dashboards: station of the view being displayed
    daily_df,      \* station dashboards: rows of the selected date
    alert_rows,    \* station dashboards: "alerts for this date" collection
    styled,        \* station dashboards: per displayed row, was it highlighted
    scanned,       \* station dashboards: gate columns read for the last row
    hl_error,      \* station dashboards: exception that left highlight_alerts, or ""
    fd_args,       \* fetch_data: the arguments of the call
    fd_calls,      \* fetch_data: calls made with these arguments
    fd_sent,       \* fetch_data: query texts the last call handed to the store
    fd_result,     \* fetch_data: what the last call returned
    fd_raised,     \* fetch_data: exception that left the last call, "" if none
    fd_failed,     \* fetch_data: the store failed during the last call
    fd_prev,       \* fetch_data: result and failure of the call before the last
    la_pc,         \* load_all_data: "idle", "loop", "returned" or "raised"
    la_i,          \* load_all_data: stations the loop has gone through
    all_data,      \* load_all_data: station name -> row set
    la_fetched,    \* load_all_data: tables fetch_data was called for, in order
    la_failed,     \* load_all_data: stations whose fetch or conversion failed
    la_errors,     \* load_all_data: stations reported with st.error
    sr_pc,         \* search: "idle", "ready", "loop", "done" or "raised"
    sr_input,      \* search: search_type, search_value, start_date, end_date
    sr_i,          \* search: stations the loop has gone through
    sr_results,    \* search: results, station name -> row set
    sr_fetches,    \* search: arguments of the fetch_data calls, in order
    sr_failed,     \* search: stations whose fetch or conversion failed
    sr_warned,     \* search: st.warning was shown
    ts_pc,         \* station tabs: "idle", "loop", "done" or "raised"
    ts_i,          \* station tabs: stations the loop has gone through
    selected_project, \* station tabs: the script's global selected_project
    ts_daily,      \* station tabs: daily_df of the station just gone through
    ts_filtered,   \* station tabs: the project filter was applied to it
    ts_error       \* station tabs: the exception that ended the script, or ""

vars == <<cc_table, cc_df, cc_alerts, cc_error,
          station_name, daily_df, alert_rows, styled, scanned, hl_error,
          fd_args, fd_calls, fd_sent, fd_result, fd_raised, fd_failed, fd_prev,
          la_pc, la_i, all_data, la_fetched, la_failed, la_errors,
          sr_pc, sr_input, sr_i, sr_results, sr_fetches, sr_failed, sr_warned,
          ts_pc, ts_i, selected_project, ts_daily, ts_filtered, ts_error>>

ccVars == <<cc_table, cc_df, cc_alerts, cc_error>>
hlVars == <<station_name, daily_df, alert_rows, styled, scanned, hl_error>>
fdVars == <<fd_args, fd_calls, fd_sent, fd_result, fd_raised, fd_failed, fd_prev>>
laVars == <<la_pc, la_i, all_data, la_fetched, la_failed, la_errors>>
srVars == <<sr_pc, sr_input, sr_i, sr_results, sr_fetches, sr_failed, sr_warned>>
tsVars == <<ts_pc, ts_i, selected_project, ts_daily, ts_filtered, ts_error>>

(***************************************************************************)
(* Bounds                                                                  *)
(***************************************************************************)
MaxRows == 2       \* rows in a row set handed to an evaluator
MaxCalls == 2      \* calls of fetch_data with one query specification

(***************************************************************************)
(* Cells.  A cell is null (None / NaN), a number, or a text.               *)
(***************************************************************************)
Null == [k |-> "null", v |-> 0, s |-> ""]
Num(n) == [k |-> "num", v |-> n, s |-> ""]
Txt(t) == [k |-> "text", v |-> 0, s |-> t]

\* pd.notnull(x)
notnull(c) == c.k # "null"

\* float(x) on the texts the model uses: the parsed value in hundredths,
\* or a ValueError.  float(None) raises TypeError, float(NaN) is NaN.
FloatOfText(t) ==
    CASE t = "10.4"  -> [ok |-> TRUE, nan |-> FALSE, v |-> 1040]
      [] t = "14.99" -> [ok |-> TRUE, nan |-> FALSE, v |-> 1499]
      [] t = "0.01"  -> [ok |-> TRUE, nan |-> FALSE, v |-> 1]
      [] OTHER       -> [ok |-> FALSE, nan |-> FALSE, v |-> 0]

float(c) ==
    CASE c.k = "num"  -> [ok |-> TRUE, nan |-> FALSE, v |-> c.v]
      [] c.k = "text" -> FloatOfText(c.s)
      [] OTHER        -> [ok |-> TRUE, nan |-> TRUE, v |-> 0]

\* "try: if float(x) < t" and "try: if float(x) > t": a failed parse and a
\* NaN both leave the branch untaken.
FloatLess(c, t) == LET f == float(c) IN f.ok /\ ~f.nan /\ f.v < t
FloatGreater(c, t) == LET f == float(c) IN f.ok /\ ~f.nan /\ f.v > t

Range(s) == {s[i] : i \in 1..Len(s)}
SeqsUpTo(S, n) == UNION {[1..m -> S] : m \in 0..n}

(***************************************************************************)
(* constraints.py                                                          *)
(***************************************************************************)
CONSTRAINTS ==
    [river_data |-> [column |-> "water_level", min_val |-> 1000, max_val |-> 2000],
     dam_data   |-> [column |-> "capacity",    min_val |-> 5000, max_val |-> 10000],
     epan_data  |-> [column |-> "some_column", min_val |-> 100,  max_val |-> 200],
     aws_data   |-> [column |-> "temperature", min_val |-> 100,  max_val |-> 200],
     ars_data   |-> [column |-> "pressure",    min_val |-> 500,  max_val |-> 1000],
     gate_data  |-> [column |-> "status",      min_val |-> 2,    max_val |-> 3]]

ConstrainedTables == DOMAIN CONSTRAINTS

\* CONSTRAINTS.get(table_name, {}).items(): the rules of the table, in order
RulesOf(table_name) ==
    IF table_name \in ConstrainedTables THEN <<CONSTRAINTS[table_name]>> ELSE <<>>

\* the mask with the bounds taken as exclusive (<=, >=)
OutsideExclusive(cell, min_val, max_val) ==
    cell.k = "num" /\ (cell.v <= min_val \/ cell.v >= max_val)

\* one row of the mask (df[column] < min_val) | (df[column] > max_val);
\* a comparison with NaN is False
Outside(cell, min_val, max_val) ==
    cell.k = "num" /\ (cell.v < min_val \/ cell.v > max_val)

\* the f-string of the alert message, piece by piece
AlertMsg(table_name, column, min_val, max_val, count) ==
    <<"Constraint violation in ", table_name, " for column '", column,
      "': Values outside [", min_val, ", ", max_val, "]. Found ",
      count, " invalid entries.">>

\* the loop with alerts.append inside a loop over the invalid rows: one
\* message for every invalid row
RECURSIVE RuleAlertsPerRow(_, _, _)
RuleAlertsPerRow(df, table_name, rules) ==
    IF rules = <<>> THEN <<>>
    ELSE LET r == Head(rules)
             invalid_rows == {i \in 1..Len(df.rows) :
                                 r.column \in df.columns
                                 /\ Outside(df.rows[i][r.column], r.min_val, r.max_val)}
             here == [i \in 1..Cardinality(invalid_rows) |->
                         AlertMsg(table_name, r.column, r.min_val, r.max_val, 1)]
         IN here \o RuleAlertsPerRow(df, table_name, Tail(rules))

RECURSIVE RuleAlerts(_, _, _)
RuleAlerts(df, table_name, rules) ==
    IF rules = <<>> THEN <<>>
    ELSE LET r == Head(rules)
             invalid_rows == {i \in 1..Len(df.rows) :
                                 r.column \in df.columns
                                 /\ Outside(df.rows[i][r.column], r.min_val, r.max_val)}
             here == IF r.column \in df.columns /\ invalid_rows # {}
                     THEN <<AlertMsg(table_name, r.column, r.min_val, r.max_val,
                                     Cardinality(invalid_rows))>>
                     ELSE <<>>
         IN here \o RuleAlerts(df, table_name, Tail(rules))

check_constraints(df, table_name) == RuleAlerts(df, table_name, RulesOf(table_name))

\* df[column]: KeyError when the row set has no such column
ColumnError(df, column) == IF column \in df.columns THEN "" ELSE "KeyError"

\* the exception that leaves check_constraints: the rules come from
\* CONSTRAINTS.get(table_name, {}), and df[column] is read only under
\* "if column in df.columns"
RECURSIVE RuleError(_, _)
RuleError(df, rules) ==
    IF rules = <<>> THEN ""
    ELSE LET r == Head(rules)
             exc == IF r.column \in df.columns THEN ColumnError(df, r.column) ELSE ""
         IN IF exc # "" THEN exc ELSE RuleError(df, Tail(rules))

check_constraints_error(df, table_name) == RuleError(df, RulesOf(table_name))

\* the row sets handed to check_constraints
CcTables == ConstrainedTables \cup {"sensor_log"}
CcColumn(table_name) ==
    IF table_name \in ConstrainedTables THEN CONSTRAINTS[table_name].column ELSE "reading"
CcValues(table_name) ==
    IF table_name \in ConstrainedTables
    THEN LET r == CONSTRAINTS[table_name]
         IN {Num(r.min_val - 1), Num(r.min_val), Num(r.max_val), Num(r.max_val + 1), Null}
    ELSE {Num(0), Null}
CcFrames(table_name) ==
    {[columns |-> {"location_id", CcColumn(table_name)},
      rows |-> [i \in 1..Len(vals) |->
                  [c \in {"location_id", CcColumn(table_name)} |->
                      IF c = "location_id" THEN Txt("GOD123") ELSE vals[i]]]] :
        vals \in SeqsUpTo(CcValues(table_name), MaxRows)}
    \cup
    {[columns |-> {"location_id"},
      rows |-> [i \in 1..n |-> [c \in {"location_id"} |-> Txt("GOD123")]]] :
        n \in 0..MaxRows}

CheckConstraints ==
    /\ \E t \in CcTables : \E df \in CcFrames(t) :
          /\ cc_table' = t
          /\ cc_df' = df
          /\ cc_alerts' = check_constraints(df, t)
          /\ cc_error' = check_constraints_error(df, t)
    /\ UNCHANGED <<hlVars, fdVars, laVars, srVars, tsVars>>

(***************************************************************************)
(* app.py: station dashboards, the row-level evaluator                     *)
(***************************************************************************)
data_sources ==
    [River |-> "river_data", Dam |-> "dam_data", EPAN |-> "epan_data",
     AWS |-> "aws_data", ARS |-> "ars_data", Gate |-> "gate_data"]

\* list(data_sources.items()): insertion order
StationOrder == <<"River", "Dam", "EPAN", "AWS", "ARS", "Gate">>
Stations == Range(StationOrder)

BattThreshold == 1050       \* float(row['batt_volt']) < 10.5
GateThreshold == 0          \* float(row[col]) > 0.00
EpanThreshold == 1500       \* float(row['epan_water_depth']) < 15
RainThreshold == 5000       \* float(row['rainfall']) > 50
WindThreshold == 3000       \* float(row['wind_speed']) > 30
TempThreshold == 4000       \* float(row['temperature']) > 40

\* the characters of the column names, for re.match
Chars(col) ==
    CASE col = "g1"      -> <<"g", "1">>
      [] col = "g3"      -> <<"g", "3">>
      [] col = "g12"     -> <<"g", "1", "2">>
      [] col = "gate_id" -> <<"g", "a", "t", "e", "_", "i", "d">>
      [] col = "g"       -> <<"g">>
      [] OTHER           -> <<"x">>

Digits == {"0", "1", "2", "3", "4", "5", "6", "7", "8", "9"}

\* re.match(r'^g\d+$', col)
IsGateCol(col) ==
    LET cs == Chars(col)
    IN Len(cs) >= 2 /\ cs[1] = "g" /\ \A i \in 2..Len(cs) : cs[i] \in Digits

\* gate_cols = [col for col in daily_df.columns if re.match(...)]
GateCols(columns) == SelectSeq(columns, IsGateCol)

\* the for loop over gate_cols without its break
RECURSIVE GateScanNoBreak(_, _)
GateScanNoBreak(row, cols) ==
    IF cols = <<>> THEN [fired |-> FALSE, read |-> 0]
    ELSE LET col == Head(cols)
             rest == GateScanNoBreak(row, Tail(cols))
         IN [fired |-> rest.fired
                       \/ (col \in DOMAIN row /\ notnull(row[col])
                           /\ FloatGreater(row[col], GateThreshold)),
             read |-> rest.read + 1]

\* the for loop over gate_cols: did a column fire, and how many were read
RECURSIVE GateScan(_, _)
GateScan(row, cols) ==
    IF cols = <<>> THEN [fired |-> FALSE, read |-> 0]
    ELSE LET col == Head(cols)
         IN IF col \in DOMAIN row /\ notnull(row[col])
                  /\ FloatGreater(row[col], GateThreshold)
            THEN [fired |-> TRUE, read |-> 1]
            ELSE LET rest == GateScan(row, Tail(cols))
                 IN [fired |-> rest.fired, read |-> rest.read + 1]

\* the battery check with the threshold itself taken as low (<= 10.5)
BatteryFiresAtThreshold(row) ==
    /\ "batt_volt" \in DOMAIN row
    /\ notnull(row["batt_volt"])
    /\ FloatLess(row["batt_volt"], BattThreshold + 1)

BatteryFires(row) ==
    /\ "batt_volt" \in DOMAIN row
    /\ notnull(row["batt_volt"])
    /\ FloatLess(row["batt_volt"], BattThreshold)

EpanFires(row) ==
    /\ "epan_water_depth" \in DOMAIN row
    /\ FloatLess(row["epan_water_depth"], EpanThreshold)

\* the rainfall check with the threshold itself taken as high (>= 50)
RainFiresAtThreshold(row) ==
    "rainfall" \in DOMAIN row /\ notnull(row["rainfall"])
    /\ FloatGreater(row["rainfall"], RainThreshold - 1)

RainFires(row) ==
    "rainfall" \in DOMAIN row /\ notnull(row["rainfall"])
    /\ FloatGreater(row["rainfall"], RainThreshold)

WindFires(row) ==
    "wind_speed" \in DOMAIN row /\ notnull(row["wind_speed"])
    /\ FloatGreater(row["wind_speed"], WindThreshold)

TempFires(row) ==
    "temperature" \in DOMAIN row /\ notnull(row["temperature"])
    /\ FloatGreater(row["temperature"], TempThreshold)

Highlight == "background-color: #ffcccc"

\* the exception float(x) raises on the cell: ValueError on a text that is
\* no number, TypeError on None, none on a number or on NaN's float
FloatError(c) ==
    CASE c.k = "text" /\ ~FloatOfText(c.s).ok -> "ValueError"
      [] c.k = "null" -> "TypeError"
      [] OTHER -> ""

\* a try block without a handler: the exception leaves the block
except_none(exc) == exc

\* "except: pass" / "except: continue": nothing leaves the try block
except_pass(exc) == ""

\* the exception that leaves the for loop over gate_cols
RECURSIVE GateError(_, _)
GateError(row, cols) ==
    IF cols = <<>> THEN ""
    ELSE LET col == Head(cols)
             read == col \in DOMAIN row /\ notnull(row[col])
             exc == IF read THEN except_pass(FloatError(row[col])) ELSE ""
         IN IF exc # "" THEN exc
            ELSE IF read /\ FloatGreater(row[col], GateThreshold) THEN ""
            ELSE GateError(row, Tail(cols))

\* the exception that leaves highlight_alerts(row): each float() sits in
\* its own try block
highlight_error(row, station, columns) ==
    LET battery == IF "batt_volt" \in DOMAIN row /\ notnull(row["batt_volt"])
                   THEN except_pass(FloatError(row["batt_volt"])) ELSE ""
        Checked(col) == IF col \in DOMAIN row /\ notnull(row[col])
                        THEN except_pass(FloatError(row[col])) ELSE ""
        specific ==
            CASE station = "Gate" -> GateError(row, GateCols(columns))
              [] station = "EPAN" /\ "epan_water_depth" \in DOMAIN row ->
                    except_pass(FloatError(row["epan_water_depth"]))
              [] station = "AWS" ->
                    IF Checked("rainfall") # "" THEN Checked("rainfall")
                    ELSE IF Checked("wind_speed") # "" THEN Checked("wind_speed")
                    ELSE Checked("temperature")
              [] OTHER -> ""
    IN IF battery # "" THEN battery ELSE specific

\* highlight_alerts(row), with the closure variables station_name and
\* daily_df.columns as parameters
highlight_alerts(row, station, columns) ==
    LET gate == IF station = "Gate" THEN GateScan(row, GateCols(columns))
                ELSE [fired |-> FALSE, read |-> 0]
        specific ==
            CASE station = "Gate" -> gate.fired
              [] station = "EPAN" /\ "epan_water_depth" \in DOMAIN row -> EpanFires(row)
              [] station = "AWS" -> RainFires(row) \/ WindFires(row) \/ TempFires(row)
              [] OTHER -> FALSE
        alert_detected == BatteryFires(row) \/ specific
    IN [styles |-> [i \in 1..Len(columns) |-> IF alert_detected THEN Highlight ELSE ""],
        alert_detected |-> alert_detected,
        read |-> gate.read]

\* the columns of each station's table that the evaluator can look at, in
\* table order
StationColumns(station) ==
    CASE station = "Gate"  -> <<"batt_volt", "g1", "gate_id", "g3">>
      [] station = "EPAN"  -> <<"batt_volt", "epan_water_depth">>
      [] station = "AWS"   -> <<"batt_volt", "rainfall", "wind_speed", "temperature">>
      [] station = "River" -> <<"batt_volt", "water_level">>
      [] station = "Dam"   -> <<"batt_volt", "capacity">>
      [] OTHER             -> <<"batt_volt", "daily_rain">>

\* the cells a column can hold
CellValues(col) ==
    CASE col = "batt_volt"        -> {Null, Num(1040), Num(1050), Txt("abc")}
      [] col = "g1"               -> {Null, Num(0), Num(1)}
      [] col = "g3"               -> {Num(0), Num(1), Txt("abc")}
      [] col = "gate_id"          -> {Num(700)}
      [] col = "epan_water_depth" -> {Null, Num(1499), Num(1500), Txt("abc"), Txt("14.99")}
      [] col = "rainfall"         -> {Num(5000), Num(5100)}
      [] col = "wind_speed"       -> {Num(3000), Num(3100)}
      [] col = "temperature"      -> {Num(4000), Num(4100)}
      [] OTHER                    -> {Num(1500), Txt("10.4")}

Without(columns, c) == SelectSeq(columns, LAMBDA x : x # c)

\* a table may lack any one of the columns
Schemas(station) ==
    {StationColumns(station)}
    \cup {Without(StationColumns(station), c) : c \in Range(StationColumns(station))}

\* every row over the columns: a mapping from column name to cell
RECURSIVE RowsOver(_)
RowsOver(columns) ==
    IF columns = <<>> THEN {<<>>}
    ELSE {(Head(columns) :> v) @@ r :
            v \in CellValues(Head(columns)), r \in RowsOver(Tail(columns))}

\* styled_df = daily_df.style.apply(highlight_alerts, axis=1): one call per
\* row, in display order; the call appends the row to alert_rows
HighlightRow ==
    /\ Len(styled) < Len(daily_df.rows)
    /\ hl_error = ""
    /\ LET row == daily_df.rows[Len(styled) + 1]
           res == highlight_alerts(row, station_name, daily_df.columns)
       IN /\ styled' = Append(styled, res.styles)
          /\ alert_rows' = IF res.alert_detected THEN Append(alert_rows, row)
                           ELSE alert_rows
          /\ scanned' = res.read
          /\ hl_error' = highlight_error(row, station_name, daily_df.columns)
    /\ UNCHANGED <<station_name, daily_df>>
    /\ UNCHANGED <<ccVars, fdVars, laVars, srVars, tsVars>>

\* the script runs again for the same view with alert_rows created once,
\* outside the display pass
DisplayAgainKeepingAlerts ==
    /\ Len(styled) = Len(daily_df.rows)
    /\ Len(styled) > 0
    /\ styled' = <<>>
    /\ scanned' = 0
    /\ hl_error' = ""
    /\ UNCHANGED <<station_name, daily_df, alert_rows>>
    /\ UNCHANGED <<ccVars, fdVars, laVars, srVars, tsVars>>

\* the script runs again for the same view: alert_rows = []
DisplayAgain ==
    /\ Len(styled) = Len(daily_df.rows)
    /\ Len(styled) > 0
    /\ alert_rows' = <<>>
    /\ styled' = <<>>
    /\ scanned' = 0
    /\ hl_error' = ""
    /\ UNCHANGED <<station_name, daily_df>>
    /\ UNCHANGED <<ccVars, fdVars, laVars, srVars, tsVars>>

(***************************************************************************)
(* The store: six tables of may_2025_data.  Dates are day numbers, texts   *)
(* are sequences of characters.                                            *)
(***************************************************************************)
G1 == <<"G", "1">>
K2 == <<"K", "2">>
Tapi == <<"T", "a", "p", "i">>
Kokan == <<"K", "o", "k", "a", "n">>

FullColumns == <<"data_date", "timestamp", "location_id", "project_name">>
BareColumns == <<"data_date", "timestamp", "location_id">>

Reading(d, t, l, p) ==
    [data_date |-> d, timestamp |-> t, location_id |-> l, project_name |-> p]
BareReading(d, t, l) == [data_date |-> d, timestamp |-> t, location_id |-> l]

\* rows in storage order; river_data and ars_data hold several readings of
\* one date, gate_data has no project_name column, dam_data is empty
Store ==
    [river_data |-> [columns |-> FullColumns,
                     rows |-> <<Reading(2, 3, K2, Kokan), Reading(1, 1, G1, Tapi),
                                Reading(1, 2, G1, Tapi)>>],
     dam_data   |-> [columns |-> FullColumns, rows |-> <<>>],
     epan_data  |-> [columns |-> FullColumns,
                     rows |-> <<Reading(1, 1, G1, Tapi), Reading(2, 2, K2, Kokan)>>],
     aws_data   |-> [columns |-> FullColumns,
                     rows |-> <<Reading(2, 1, G1, Kokan)>>],
     ars_data   |-> [columns |-> FullColumns,
                     rows |-> <<Reading(2, 1, G1, Tapi), Reading(2, 2, K2, Kokan)>>],
     gate_data  |-> [columns |-> BareColumns,
                     rows |-> <<BareReading(1, 1, G1), BareReading(2, 2, G1)>>]]

StoreTables == DOMAIN Store

(***************************************************************************)
(* db.py                                                                   *)
(***************************************************************************)
NoDate == 0                  \* start_date / end_date None
NoColumn == ""               \* date_column / filter_column None
NoValue == <<"None">>        \* filter_value None

BetweenOp == "BETWEEN :start_date AND :end_date"
EqualsOp == "= :filter_value"

\* " AND ".join(conditions)
RECURSIVE JoinAnd(_)
JoinAnd(conditions) ==
    IF conditions = <<>> THEN <<>>
    ELSE IF Len(conditions) = 1 THEN Head(conditions)
    ELSE Head(conditions) \o <<"AND">> \o JoinAnd(Tail(conditions))

\* the query with the date range left out when start_date is after end_date
BuildQueryOrderedDatesOnly(a) ==
    LET dated == a.start_date # NoDate /\ a.end_date # NoDate /\ a.start_date <= a.end_date
        filtered == a.filter_column # NoColumn /\ a.filter_value # NoValue
        conditions ==
            (IF dated THEN << <<a.date_column, BetweenOp>> >> ELSE <<>>)
            \o (IF filtered THEN << <<a.filter_column, EqualsOp>> >> ELSE <<>>)
    IN [text |-> <<"SELECT * FROM", a.table_name>>
                 \o (IF conditions # <<>> THEN <<"WHERE">> \o JoinAnd(conditions)
                     ELSE <<>>)
                 \o (IF a.date_column # NoColumn THEN <<"ORDER BY", a.date_column>>
                     ELSE <<>>),
        params |-> [start_date |-> IF dated THEN a.start_date ELSE NoDate,
                    end_date |-> IF dated THEN a.end_date ELSE NoDate,
                    filter_value |-> IF filtered THEN a.filter_value ELSE NoValue]]

\* the query with the date range added as soon as one of the dates is given
BuildQueryEitherDate(a) ==
    LET dated == a.start_date # NoDate \/ a.end_date # NoDate
        filtered == a.filter_column # NoColumn /\ a.filter_value # NoValue
        conditions ==
            (IF dated THEN << <<a.date_column, BetweenOp>> >> ELSE <<>>)
            \o (IF filtered THEN << <<a.filter_column, EqualsOp>> >> ELSE <<>>)
    IN [text |-> <<"SELECT * FROM", a.table_name>>
                 \o (IF conditions # <<>> THEN <<"WHERE">> \o JoinAnd(conditions)
                     ELSE <<>>)
                 \o (IF a.date_column # NoColumn THEN <<"ORDER BY", a.date_column>>
                     ELSE <<>>),
        params |-> [start_date |-> IF dated THEN a.start_date ELSE NoDate,
                    end_date |-> IF dated THEN a.end_date ELSE NoDate,
                    filter_value |-> IF filtered THEN a.filter_value ELSE NoValue]]

\* the query text and the bound parameters fetch_data builds
BuildQuery(a) ==
    LET dated == a.start_date # NoDate /\ a.end_date # NoDate
        filtered == a.filter_column # NoColumn /\ a.filter_value # NoValue
        conditions ==
            (IF dated THEN << <<a.date_column, BetweenOp>> >> ELSE <<>>)
            \o (IF filtered THEN << <<a.filter_column, EqualsOp>> >> ELSE <<>>)
    IN [text |-> <<"SELECT * FROM", a.table_name>>
                 \o (IF conditions # <<>> THEN <<"WHERE">> \o JoinAnd(conditions)
                     ELSE <<>>)
                 \o (IF a.date_column # NoColumn THEN <<"ORDER BY", a.date_column>>
                     ELSE <<>>),
        params |-> [start_date |-> IF dated THEN a.start_date ELSE NoDate,
                    end_date |-> IF dated THEN a.end_date ELSE NoDate,
                    filter_value |-> IF filtered THEN a.filter_value ELSE NoValue]]

\* pd.DataFrame()
EmptyFrame == [columns |-> <<>>, rows |-> <<>>]

(***************************************************************************)
(* The store reading a query text                                          *)
(***************************************************************************)
RECURSIVE ParseConditions(_, _)
ParseConditions(text, i) ==
    LET here == [column |-> text[i], op |-> text[i + 1]]
    IN IF i + 2 <= Len(text) /\ text[i + 2] = "AND"
       THEN LET rest == ParseConditions(text, i + 3)
            IN [conds |-> <<here>> \o rest.conds, next |-> rest.next]
       ELSE [conds |-> <<here>>, next |-> i + 2]

ParseQuery(text) ==
    LET where == IF Len(text) >= 3 /\ text[3] = "WHERE"
                 THEN ParseConditions(text, 4)
                 ELSE [conds |-> <<>>, next |-> 3]
    IN [table |-> text[2],
        conds |-> where.conds,
        order_by |-> IF where.next <= Len(text) /\ text[where.next] = "ORDER BY"
                     THEN text[where.next + 1] ELSE NoColumn]

Satisfies(row, cond, params) ==
    IF cond.op = BetweenOp
    THEN params.start_date <= row[cond.column] /\ row[cond.column] <= params.end_date
    ELSE row[cond.column] = params.filter_value

StoreError == [err |-> TRUE, df |-> EmptyFrame]

\* every answer the store may give to the query: an error for an unknown
\* table or column, otherwise the matching rows, ascending in the ORDER BY
\* column; rows the ORDER BY does not tell apart come in any order
StoreAnswers(q) ==
    LET pq == ParseQuery(q.text)
    IN IF pq.table \notin StoreTables THEN {StoreError}
       ELSE LET tbl == Store[pq.table]
                used == {pq.conds[i].column : i \in 1..Len(pq.conds)}
                        \cup (IF pq.order_by # NoColumn THEN {pq.order_by} ELSE {})
                match == {i \in 1..Len(tbl.rows) :
                            \A j \in 1..Len(pq.conds) :
                                Satisfies(tbl.rows[i], pq.conds[j], q.params)}
                n == Cardinality(match)
                orders == {p \in [1..n -> match] :
                             /\ \A i, j \in 1..n : i # j => p[i] # p[j]
                             /\ pq.order_by # NoColumn =>
                                  \A i, j \in 1..n :
                                     i < j => tbl.rows[p[i]][pq.order_by]
                                              <= tbl.rows[p[j]][pq.order_by]}
            IN IF ~(used \subseteq Range(tbl.columns)) THEN {StoreError}
               ELSE {[err |-> FALSE,
                      df |-> [columns |-> tbl.columns,
                              rows |-> [k \in 1..n |-> tbl.rows[p[k]]]]] :
                        p \in orders}

\* an except clause that names the connection failure only
CaughtConnectionOnly(exc) == exc = "OperationalError"

\* except Exception: every exception of the try body is caught
Caught(exc) == exc # ""

\* fetch_data(table_name, start_date, end_date, date_column, filter_column,
\* filter_value) when engine.connect() succeeds or not (up) and the store
\* gives the answer ans
fetch_data(a, up, ans) ==
    LET q == BuildQuery(a)
        exc == IF ~up THEN "OperationalError"
               ELSE IF ans.err THEN "ProgrammingError" ELSE ""
    IN [sent |-> IF up THEN <<q.text>> ELSE <<>>,
        df |-> IF exc = "" THEN ans.df ELSE EmptyFrame,
        raised |-> IF Caught(exc) THEN "" ELSE exc,
        failed |-> exc # ""]

FetchTables == StoreTables \cup {"pump_data"}
FetchArgs ==
    [table_name : FetchTables,
     start_date : {NoDate, 1, 2},
     end_date : {NoDate, 1, 2},
     date_column : {"data_date", NoColumn, "reading_date"},
     filter_column : {NoColumn, "location_id", "project_name"},
     filter_value : {NoValue, G1, Tapi}]

NoCall == [df |-> EmptyFrame, failed |-> FALSE]

\* one call of fetch_data with the query specification fd_args
FetchData ==
    /\ fd_calls < MaxCalls
    /\ \E up \in BOOLEAN : \E ans \in StoreAnswers(BuildQuery(fd_args)) :
          LET res == fetch_data(fd_args, up, ans)
          IN /\ fd_sent' = res.sent
             /\ fd_result' = res.df
             /\ fd_raised' = res.raised
             /\ fd_failed' = res.failed
    /\ fd_prev' = IF fd_calls = 0 THEN NoCall
                  ELSE [df |-> fd_result, failed |-> fd_failed]
    /\ fd_calls' = fd_calls + 1
    /\ UNCHANGED <<fd_args>>
    /\ UNCHANGED <<ccVars, hlVars, laVars, srVars, tsVars>>

(***************************************************************************)
(* app.py: load_all_data                                                   *)
(***************************************************************************)
\* fetch_data(table): every optional argument at its default
DefaultArgs(table) ==
    [table_name |-> table, start_date |-> NoDate, end_date |-> NoDate,
     date_column |-> "data_date", filter_column |-> NoColumn, filter_value |-> NoValue]

\* df['timestamp'] = pd.to_datetime(df['timestamp'])
to_datetime(df) ==
    [df EXCEPT !.rows = [i \in 1..Len(df.rows) |->
                            [df.rows[i] EXCEPT !.timestamp = [datetime |-> @]]]]

\* the body of the for loop without its try / except: an exception of the
\* body leaves load_all_data
load_station_unguarded(data, name, res, parsed) ==
    LET exc == IF res.raised # "" THEN res.raised
               ELSE IF "timestamp" \in Range(res.df.columns) /\ ~parsed
                    THEN "ValueError" ELSE ""
    IN IF exc = ""
       THEN [all_data |-> (name :> (IF "timestamp" \in Range(res.df.columns)
                                    THEN to_datetime(res.df) ELSE res.df)) @@ data,
             error |-> FALSE, raised |-> ""]
       ELSE [all_data |-> data, error |-> FALSE, raised |-> exc]

\* the body of the for loop of load_all_data for one station: res is what
\* fetch_data gave, parsed whether pd.to_datetime can read the timestamps
load_station(data, name, res, parsed) ==
    LET exc == IF res.raised # "" THEN res.raised
               ELSE IF "timestamp" \in Range(res.df.columns) /\ ~parsed
                    THEN "ValueError" ELSE ""
    IN IF exc = ""
       THEN [all_data |-> (name :> (IF "timestamp" \in Range(res.df.columns)
                                    THEN to_datetime(res.df) ELSE res.df)) @@ data,
             error |-> FALSE, raised |-> ""]
       ELSE [all_data |-> (name :> EmptyFrame) @@ data, error |-> TRUE, raised |-> ""]

NoData == <<>>       \* all_data = {}

LoadStation ==
    /\ la_pc = "loop"
    /\ la_i < Len(StationOrder)
    /\ LET name == StationOrder[la_i + 1]
           table == data_sources[name]
       IN \E up \in BOOLEAN, parsed \in BOOLEAN :
          \E ans \in StoreAnswers(BuildQuery(DefaultArgs(table))) :
             LET res == fetch_data(DefaultArgs(table), up, ans)
                 step == load_station(all_data, name, res, parsed)
             IN /\ all_data' = step.all_data
                /\ la_errors' = IF step.error THEN Append(la_errors, name) ELSE la_errors
                /\ la_failed' = IF res.failed \/ step.error \/ step.raised # ""
                                THEN la_failed \cup {name} ELSE la_failed
                /\ la_pc' = IF step.raised # "" THEN "raised" ELSE "loop"
                /\ la_fetched' = Append(la_fetched, table)
    /\ la_i' = la_i + 1
    /\ UNCHANGED <<ccVars, hlVars, fdVars, srVars, tsVars>>

\* return all_data
LoadReturn ==
    /\ la_pc = "loop"
    /\ la_i = Len(StationOrder)
    /\ la_pc' = "returned"
    /\ UNCHANGED <<la_i, all_data, la_fetched, la_failed, la_errors>>
    /\ UNCHANGED <<ccVars, hlVars, fdVars, srVars, tsVars>>

(***************************************************************************)
(* app.py: the cross-station search of the Custom Selection tab            *)
(***************************************************************************)
PROJECT_OPTIONS == {Tapi, Kokan}

Whitespace == {" ", "\t", "\n"}

\* str.strip()
RECURSIVE lstrip(_)
lstrip(str) ==
    IF str # <<>> /\ Head(str) \in Whitespace THEN lstrip(Tail(str)) ELSE str
RECURSIVE rstrip(_)
rstrip(str) ==
    IF str # <<>> /\ str[Len(str)] \in Whitespace
    THEN rstrip(SubSeq(str, 1, Len(str) - 1)) ELSE str

\* the value taken as typed
unstripped(str) == str

strip(str) == rstrip(lstrip(str))

\* search_type.lower().replace(" ", "_")
FilterColumnOf(search_type) ==
    IF search_type = "Location ID" THEN "location_id" ELSE "project_name"

SearchArgs(table, input) ==
    [table_name |-> table, start_date |-> input.start_date,
     end_date |-> input.end_date, date_column |-> "data_date",
     filter_column |-> FilterColumnOf(input.search_type),
     filter_value |-> strip(input.search_value)]

\* df.astype(str)
astype_str(df) ==
    [df EXCEPT !.rows = [i \in 1..Len(df.rows) |->
                            [c \in DOMAIN df.rows[i] |-> [str |-> df.rows[i][c]]]]]

\* the click on "Execute Advanced Search": the empty value is turned away,
\* any other value starts the scan with results = {}
ExecuteSearch ==
    /\ sr_pc = "ready"
    /\ IF strip(sr_input.search_value) = <<>>
       THEN /\ sr_warned' = TRUE
            /\ sr_pc' = "done"
       ELSE /\ sr_warned' = FALSE
            /\ sr_pc' = "loop"
    /\ UNCHANGED <<sr_input, sr_i, sr_results, sr_fetches, sr_failed>>
    /\ UNCHANGED <<ccVars, hlVars, fdVars, laVars, tsVars>>

\* the body of the search loop for one station: res is what fetch_data
\* gave, converted whether df.astype(str) went through
search_station(results, name, res, converted) ==
    LET exc == IF res.raised # "" THEN res.raised
               ELSE IF res.df.rows # <<>> /\ ~converted THEN "ValueError" ELSE ""
    IN IF exc = "" /\ res.df.rows # <<>>
       THEN [results |-> (name :> astype_str(res.df)) @@ results, raised |-> ""]
       ELSE [results |-> results, raised |-> ""]

SearchStation ==
    /\ sr_pc = "loop"
    /\ sr_i < Len(StationOrder)
    /\ LET name == StationOrder[sr_i + 1]
           args == SearchArgs(data_sources[name], sr_input)
       IN \E up \in BOOLEAN, converted \in BOOLEAN :
          \E ans \in StoreAnswers(BuildQuery(args)) :
             LET res == fetch_data(args, up, ans)
                 step == search_station(sr_results, name, res, converted)
             IN /\ sr_results' = step.results
                /\ sr_failed' = IF res.failed \/ (res.df.rows # <<>> /\ ~converted)
                                THEN sr_failed \cup {name} ELSE sr_failed
                /\ sr_pc' = IF step.raised # "" THEN "raised" ELSE "loop"
                /\ sr_fetches' = Append(sr_fetches, args)
    /\ sr_i' = sr_i + 1
    /\ UNCHANGED <<sr_input, sr_warned>>
    /\ UNCHANGED <<ccVars, hlVars, fdVars, laVars, tsVars>>

\* status.update(label="Search complete!") and the display of the results
SearchComplete ==
    /\ sr_pc = "loop"
    /\ sr_i = Len(StationOrder)
    /\ sr_pc' = "done"
    /\ UNCHANGED <<sr_input, sr_i, sr_results, sr_fetches, sr_failed, sr_warned>>
    /\ UNCHANGED <<ccVars, hlVars, fdVars, laVars, tsVars>>

SearchInputs ==
    [search_type : {"Location ID"},
     search_value : {<<>>, <<" ">>, <<" ", "\t">>, G1, <<" ">> \o K2 \o <<" ">>},
     start_date : {1, 2}, end_date : {2}]
    \cup
    [search_type : {"Project Name"}, search_value : PROJECT_OPTIONS,
     start_date : {1, 2}, end_date : {2}]

(***************************************************************************)
(* app.py: the loop over the station tabs                                  *)
(***************************************************************************)
Unbound == <<"unbound">>            \* selected_project not assigned yet
AllProjects == <<"All Projects">>
SelectedDate == 1                   \* the day picked in the date input

\* the row sets all_data can hold for a station: every column, no
\* project_name column, no data_date column, or nothing at all
FullFrame ==
    [columns |-> FullColumns,
     rows |-> <<Reading(1, 1, G1, Tapi), Reading(1, 2, K2, Kokan),
                Reading(2, 3, G1, Tapi)>>]
BareFrame ==
    [columns |-> BareColumns,
     rows |-> <<BareReading(1, 1, G1), BareReading(2, 2, G1)>>]
UndatedFrame ==
    [columns |-> <<"timestamp", "location_id", "project_name">>,
     rows |-> <<[timestamp |-> 1, location_id |-> G1, project_name |-> Tapi]>>]
StationFrames == {EmptyFrame, FullFrame, BareFrame, UndatedFrame}

\* df[df['data_date'].astype(str) == selected_date_str]
OnSelectedDate(df) ==
    [df EXCEPT !.rows = SelectSeq(df.rows, LAMBDA r : r.data_date = SelectedDate)]

\* daily_df[daily_df['project_name'] == selected_project]
OfProject(df, project) ==
    [df EXCEPT !.rows = SelectSeq(df.rows, LAMBDA r : r.project_name = project)]

\* the body of the for loop for one station tab, up to the daily row set;
\* selected is the global selected_project as the loop body finds it and
\* choice what the user has picked in this station's select box
station_tab(df, selected, choice) ==
    LET has_project == "project_name" \in Range(df.columns)
        has_date == "data_date" \in Range(df.columns)
        project == IF has_project THEN choice ELSE selected
        by_date == OnSelectedDate(df)
    IN IF df.rows = <<>>
       THEN [selected_project |-> selected, daily_df |-> EmptyFrame,
             filtered |-> FALSE, error |-> ""]
       ELSE IF ~has_date
       THEN [selected_project |-> project, daily_df |-> EmptyFrame,
             filtered |-> FALSE, error |-> ""]
       ELSE IF project = Unbound
       THEN [selected_project |-> project, daily_df |-> by_date,
             filtered |-> FALSE, error |-> "NameError"]
       ELSE IF project = AllProjects
       THEN [selected_project |-> project, daily_df |-> by_date,
             filtered |-> FALSE, error |-> ""]
       ELSE IF ~has_project
       THEN [selected_project |-> project, daily_df |-> by_date,
             filtered |-> TRUE, error |-> "KeyError"]
       ELSE [selected_project |-> project,
             daily_df |-> OfProject(by_date, project),
             filtered |-> TRUE, error |-> ""]

\* options=["All Projects"] + list(projects)
ProjectChoices(df) ==
    IF "project_name" \in Range(df.columns)
    THEN {AllProjects} \cup {df.rows[i].project_name : i \in 1..Len(df.rows)}
    ELSE {AllProjects}

StationTab ==
    /\ ts_pc = "loop"
    /\ ts_i < Len(StationOrder)
    /\ LET df == all_data[StationOrder[ts_i + 1]]
       IN \E choice \in ProjectChoices(df) :
             LET tab == station_tab(df, selected_project, choice)
             IN /\ selected_project' = tab.selected_project
                /\ ts_daily' = tab.daily_df
                /\ ts_filtered' = tab.filtered
                /\ ts_error' = tab.error
                /\ ts_pc' = IF tab.error # "" THEN "raised" ELSE "loop"
    /\ ts_i' = ts_i + 1
    /\ UNCHANGED <<ccVars, hlVars, fdVars, laVars, srVars>>

\* the loop has gone through the six tabs
StationTabsDone ==
    /\ ts_pc = "loop"
    /\ ts_i = Len(StationOrder)
    /\ ts_pc' = "done"
    /\ UNCHANGED <<ts_i, selected_project, ts_daily, ts_filtered, ts_error>>
    /\ UNCHANGED <<ccVars, hlVars, fdVars, laVars, srVars>>

(***************************************************************************)
(* Specifications                                                          *)
(***************************************************************************)
CcIdle == cc_table = "river_data" /\ cc_df = [columns |-> {}, rows |-> <<>>]
          /\ cc_alerts = <<>> /\ cc_error = ""
HlIdle == station_name = "River" /\ daily_df = EmptyFrame /\ alert_rows = <<>>
          /\ styled = <<>> /\ scanned = 0 /\ hl_error = ""

FdIdle == /\ fd_args = [table_name |-> "river_data", start_date |-> NoDate,
                         end_date |-> NoDate, date_column |-> "data_date",
                         filter_column |-> NoColumn, filter_value |-> NoValue]
          /\ fd_calls = 0 /\ fd_sent = <<>> /\ fd_result = EmptyFrame
          /\ fd_raised = "" /\ fd_failed = FALSE /\ fd_prev = NoCall

LaIdle == la_pc = "idle" /\ la_i = 0 /\ all_data = NoData /\ la_fetched = <<>>
          /\ la_failed = {} /\ la_errors = <<>>
SrIdle == /\ sr_pc = "idle"
          /\ sr_input = [search_type |-> "Project Name", search_value |-> Tapi,
                          start_date |-> 1, end_date |-> 2]
          /\ sr_i = 0 /\ sr_results = NoData /\ sr_fetches = <<>>
          /\ sr_failed = {} /\ sr_warned = FALSE

TsIdle == ts_pc = "idle" /\ ts_i = 0 /\ selected_project = Unbound
          /\ ts_daily = EmptyFrame /\ ts_filtered = FALSE /\ ts_error = ""

\* constraints.py: calls of check_constraints
InitConstraints == CcIdle /\ HlIdle /\ FdIdle /\ LaIdle /\ SrIdle /\ TsIdle
NextConstraints == CheckConstraints
SpecConstraints == InitConstraints /\ [][NextConstraints]_vars

\* app.py: the display pass of one station view
InitView ==
    /\ CcIdle /\ FdIdle /\ LaIdle /\ SrIdle /\ TsIdle
    /\ station_name \in Stations
    /\ \E cols \in Schemas(station_name) : \E m \in 1..MaxRows :
          \E rs \in [1..m -> RowsOver(cols)] :
             daily_df = [columns |-> cols, rows |-> rs]
    /\ alert_rows = <<>>
    /\ styled = <<>>
    /\ scanned = 0
    /\ hl_error = ""
NextView == HighlightRow \/ DisplayAgain
SpecView == InitView /\ [][NextView]_vars

\* db.py: calls of fetch_data with one query specification
InitFetch ==
    /\ CcIdle /\ HlIdle /\ LaIdle /\ SrIdle /\ TsIdle
    /\ fd_args \in FetchArgs
    /\ fd_calls = 0 /\ fd_sent = <<>> /\ fd_result = EmptyFrame
    /\ fd_raised = "" /\ fd_failed = FALSE /\ fd_prev = NoCall
NextFetch == FetchData
SpecFetch == InitFetch /\ [][NextFetch]_vars

\* app.py: one run of load_all_data, or one click on the search button
InitLoad ==
    /\ la_pc = "loop" /\ la_i = 0 /\ all_data = NoData /\ la_fetched = <<>>
    /\ la_failed = {} /\ la_errors = <<>>
    /\ SrIdle
InitSearch ==
    /\ LaIdle
    /\ sr_pc = "ready"
    /\ sr_input \in SearchInputs
    /\ sr_i = 0 /\ sr_results = NoData /\ sr_fetches = <<>>
    /\ sr_failed = {} /\ sr_warned = FALSE
InitLoops == CcIdle /\ HlIdle /\ FdIdle /\ TsIdle /\ (InitLoad \/ InitSearch)
NextLoops == LoadStation \/ LoadReturn \/ ExecuteSearch \/ SearchStation
             \/ SearchComplete
SpecLoops == InitLoops /\ [][NextLoops]_vars

\* app.py: the loop over the station tabs once load_all_data has returned
InitStations ==
    /\ CcIdle /\ HlIdle /\ FdIdle /\ SrIdle
    /\ la_pc = "returned" /\ la_i = Len(StationOrder)
    /\ all_data \in [Stations -> StationFrames]
    /\ la_fetched = [i \in 1..Len(StationOrder) |-> data_sources[StationOrder[i]]]
    /\ la_failed = {n \in Stations : all_data[n] = EmptyFrame}
    /\ la_errors = <<>>
    /\ ts_pc = "loop" /\ ts_i = 0 /\ selected_project = Unbound
    /\ ts_daily = EmptyFrame /\ ts_filtered = FALSE /\ ts_error = ""
NextStations == StationTab \/ StationTabsDone
SpecStations == InitStations /\ [][NextStations]_vars

(***************************************************************************)
(* Properties                                                              *)
(***************************************************************************)
\* the cell of the column is a number below / above the threshold
NumBelow(row, col, t) == col \in DOMAIN row /\ row[col].k = "num" /\ row[col].v < t
NumAbove(row, col, t) == col \in DOMAIN row /\ row[col].k = "num" /\ row[col].v > t

\* the rows of the view the evaluator has been called on so far
Displayed == 1..Len(styled)
Flagged(i) == \A j \in 1..Len(styled[i]) : styled[i][j] = Highlight
Plain(i) == \A j \in 1..Len(styled[i]) : styled[i][j] = ""

\* the rule of the table check_constraints was called on, when its column
\* is in the row set
CcRuleApplies == cc_table \in ConstrainedTables
                 /\ CONSTRAINTS[cc_table].column \in cc_df.columns
CcCells == {cc_df.rows[i][CONSTRAINTS[cc_table].column] : i \in 1..Len(cc_df.rows)}
CcMessages ==
    {i \in 1..Len(cc_alerts) :
        /\ cc_alerts[i][2] = cc_table
        /\ cc_alerts[i][4] = CONSTRAINTS[cc_table].column
        /\ cc_alerts[i][6] = CONSTRAINTS[cc_table].min_val
        /\ cc_alerts[i][8] = CONSTRAINTS[cc_table].max_val}

\* C1: check_constraints uses inclusive bounds.  For every table and rule
\* (column, (min, max)), a row set with a value min-1 or max+1 in the column
\* yields a message carrying the table name, the column name and the range;
\* a row set whose values in the column all lie in [min, max], the two ends
\* included, yields no message for the rule.
C1_InclusiveBounds ==
    CcRuleApplies =>
        LET r == CONSTRAINTS[cc_table]
        IN /\ (Num(r.min_val - 1) \in CcCells \/ Num(r.max_val + 1) \in CcCells)
                => CcMessages # {}
           /\ (\A c \in CcCells : c.k = "num" /\ r.min_val <= c.v /\ c.v <= r.max_val)
                => cc_alerts = <<>>

\* gate_data: one row at min and one at max+1: one message, count 1
C1_Witness ==
    /\ cc_table = "gate_data"
    /\ CcRuleApplies
    /\ {Num(2), Num(4)} \subseteq CcCells
    /\ cc_alerts = <<AlertMsg("gate_data", "status", 2, 3, 1)>>

\* C2: the battery predicate is universal and strict.  For every station
\* kind a displayed row whose batt_volt is a number below 10.5 is flagged;
\* a row with batt_volt exactly 10.5 is flagged only if it would also be
\* flagged with no battery reading at all, and never for the three stations
\* that have no predicate of their own.
C2_BatteryUniversalStrict ==
    \A i \in Displayed :
        LET row == daily_df.rows[i]
        IN /\ NumBelow(row, "batt_volt", 1050) => Flagged(i)
           /\ ("batt_volt" \in DOMAIN row /\ row["batt_volt"] = Num(1050) /\ Flagged(i))
                => /\ station_name \in {"Gate", "EPAN", "AWS"}
                   /\ highlight_alerts([row EXCEPT !["batt_volt"] = Null],
                                       station_name, daily_df.columns).alert_detected

\* a River view: the 10.4 V row is flagged, the 10.5 V row is not
C2_Witness ==
    /\ station_name = "River"
    /\ Len(styled) = 2
    /\ "batt_volt" \in DOMAIN daily_df.rows[1]
    /\ daily_df.rows[1]["batt_volt"] = Num(1040) /\ Flagged(1)
    /\ daily_df.rows[2]["batt_volt"] = Num(1050) /\ Plain(2)
    /\ Len(alert_rows) = 1

\* the battery predicate does not fire on the row
BatteryQuiet(row) == ~NumBelow(row, "batt_volt", 1050)

\* the gate columns of the view in table order, and those that fire on a row
GateColumnsOf(row) == SelectSeq(daily_df.columns, LAMBDA c : c \in {"g1", "g3"})
GateFiring(row) == {j \in 1..Len(GateColumnsOf(row)) : NumAbove(row, GateColumnsOf(row)[j], 0)}

\* C3: a Gate row on which the battery predicate does not fire is flagged
\* if and only if some column named g<digits> holds a number above 0.00,
\* and the scan of the gate columns stops at the first one that fires.
C3_GateRule ==
    station_name = "Gate" =>
        /\ \A i \in Displayed :
              LET row == daily_df.rows[i]
              IN BatteryQuiet(row) => (Flagged(i) <=> GateFiring(row) # {})
        /\ Len(styled) > 0 =>
              LET row == daily_df.rows[Len(styled)]
              IN IF GateFiring(row) # {}
                 THEN \A j \in GateFiring(row) : scanned <= j
                 ELSE scanned = Len(GateColumnsOf(row))

\* a Gate view: all gate columns 0.00, then the same row with g3 = 0.01
C3_Witness ==
    /\ station_name = "Gate"
    /\ daily_df.columns = <<"batt_volt", "g1", "gate_id", "g3">>
    /\ Len(styled) = 2
    /\ daily_df.rows[1] = [batt_volt |-> Num(1050), g1 |-> Num(0),
                            gate_id |-> Num(700), g3 |-> Num(0)]
    /\ daily_df.rows[2] = [batt_volt |-> Num(1050), g1 |-> Num(0),
                            gate_id |-> Num(700), g3 |-> Num(1)]
    /\ Plain(1) /\ Flagged(2)
    /\ scanned = 2

\* C4: an AWS row on which the battery predicate does not fire is flagged
\* if and only if rainfall > 50 or wind_speed > 30 or temperature > 40,
\* each threshold strict and each checked on its own.
C4_AwsRule ==
    station_name = "AWS" =>
        \A i \in Displayed :
            LET row == daily_df.rows[i]
            IN BatteryQuiet(row) =>
                 (Flagged(i) <=> \/ NumAbove(row, "rainfall", 5000)
                                 \/ NumAbove(row, "wind_speed", 3000)
                                 \/ NumAbove(row, "temperature", 4000))

\* an AWS view: rainfall 51 is flagged, rainfall 50 is not, wind and
\* temperature at their thresholds in both rows
C4_Witness ==
    /\ station_name = "AWS"
    /\ daily_df.columns = <<"batt_volt", "rainfall", "wind_speed", "temperature">>
    /\ Len(styled) = 2
    /\ daily_df.rows[1] = [batt_volt |-> Num(1050), rainfall |-> Num(5100),
                            wind_speed |-> Num(3000), temperature |-> Num(4000)]
    /\ daily_df.rows[2] = [batt_volt |-> Num(1050), rainfall |-> Num(5000),
                            wind_speed |-> Num(3000), temperature |-> Num(4000)]
    /\ Flagged(1) /\ Plain(2)

\* the six tables of data_sources
KnownTables == {data_sources[n] : n \in Stations}

\* C5: fetch_data called with a table name that is not one of the six
\* station tables fails with a validation error before any query is built,
\* and no query for that name reaches the store.
C5_UnknownTableRejected ==
    (fd_calls > 0 /\ fd_args.table_name \notin KnownTables)
        => (fd_sent = <<>> /\ fd_raised # "")

\* C6: when the store fails during retrieval, fetch_data returns an empty
\* result set and no exception leaves it, whatever optional arguments the
\* call carries.
C6_StoreFailureIsSoft ==
    fd_calls > 0 =>
        /\ fd_raised = ""
        /\ fd_failed => fd_result = EmptyFrame

\* a call with every optional argument given, the store refusing the query
C6_Witness ==
    /\ fd_calls > 0
    /\ fd_failed
    /\ fd_sent # <<>>
    /\ fd_args.start_date # NoDate /\ fd_args.end_date # NoDate
    /\ fd_args.date_column = "reading_date"
    /\ fd_args.filter_column # NoColumn /\ fd_args.filter_value # NoValue
    /\ fd_result = EmptyFrame
    /\ fd_raised = ""

\* C7: a failing station never blocks the others.  load_all_data calls
\* fetch_data for every station in turn, never raises, and returns a
\* mapping with exactly the six station keys, a failed station mapped to an
\* empty row set; the search loop goes on to the remaining stations after
\* an error, and has queried all six in turn when it completes.
C7_FailuresAreIsolated ==
    /\ la_pc # "raised"
    /\ la_fetched = [i \in 1..la_i |-> data_sources[StationOrder[i]]]
    /\ la_pc = "returned" =>
          /\ la_i = Len(StationOrder)
          /\ DOMAIN all_data = Stations
          /\ \A n \in la_failed : all_data[n] = EmptyFrame
    /\ sr_pc # "raised"
    /\ Len(sr_fetches) = sr_i
    /\ \A i \in 1..Len(sr_fetches) :
          sr_fetches[i].table_name = data_sources[StationOrder[i]]
    /\ (sr_pc = "done" /\ ~sr_warned) => sr_i = Len(StationOrder)

\* load_all_data has returned: River and AWS failed, EPAN and ARS loaded
C7_Witness ==
    /\ la_pc = "returned"
    /\ la_failed = {"River", "AWS"}
    /\ la_errors = <<"AWS">>
    /\ DOMAIN all_data = Stations
    /\ Len(all_data["EPAN"].rows) = 2
    /\ Len(all_data["ARS"].rows) = 2

\* C8: repeated calls of fetch_data with one query specification that
\* designates a date column, against the unchanged table, return the same
\* rows in the same order, also when several rows share a value in that
\* column.
C8_RepeatableOrder ==
    (fd_calls >= 2 /\ fd_args.date_column # NoColumn /\ ~fd_failed /\ ~fd_prev.failed)
        => fd_result = fd_prev.df

\* the search value holds nothing but whitespace
Blank(str) == \A i \in 1..Len(str) : str[i] \in Whitespace

\* C9: an empty or whitespace-only search value is turned away before any
\* query: the user is warned and fetch_data is called for no station.
C9_BlankSearchRejected ==
    (sr_pc \in {"loop", "done", "raised"} /\ Blank(sr_input.search_value))
        => /\ sr_warned
           /\ sr_pc = "done"
           /\ sr_fetches = <<>>
           /\ sr_i = 0
           /\ sr_results = NoData

\* the click with a value of a blank and a tab
C9_Witness ==
    /\ sr_pc = "done"
    /\ sr_input.search_value = <<" ", "\t">>
    /\ sr_warned
    /\ sr_fetches = <<>>

\* the station the loop has just gone through, and its row set
LastStation == StationOrder[ts_i]
LastFrame == all_data[LastStation]

\* C10: a station whose table has a data_date column but no project_name
\* column gets no project filter (none chosen for another station either)
\* and raises no error, wherever it stands in the loop.
C10_MissingProjectSkipped ==
    (ts_pc \in {"loop", "raised"} /\ ts_i > 0
     /\ LastFrame.rows # <<>>
     /\ "data_date" \in Range(LastFrame.columns)
     /\ "project_name" \notin Range(LastFrame.columns))
        => /\ ts_error = ""
           /\ ~ts_filtered
           /\ ts_daily.columns = LastFrame.columns
           /\ ts_daily.rows = SelectSeq(LastFrame.rows,
                                        LAMBDA r : r.data_date = SelectedDate)

\* the cell of the column is there, not null, reads as a number, and the
\* number is below / above the threshold
ReadsBelow(row, col, t) ==
    col \in DOMAIN row /\ row[col].k # "null" /\ float(row[col]).ok
    /\ float(row[col]).v < t
ReadsAbove(row, col, t) ==
    col \in DOMAIN row /\ row[col].k # "null" /\ float(row[col]).ok
    /\ float(row[col]).v > t

\* some predicate that applies to the station fires on a usable cell
SomePredicateFires(row) ==
    \/ ReadsBelow(row, "batt_volt", 1050)
    \/ station_name = "Gate" /\ \E c \in {"g1", "g3"} : ReadsAbove(row, c, 0)
    \/ station_name = "EPAN" /\ ReadsBelow(row, "epan_water_depth", 1500)
    \/ station_name = "AWS" /\ (\/ ReadsAbove(row, "rainfall", 5000)
                                \/ ReadsAbove(row, "wind_speed", 3000)
                                \/ ReadsAbove(row, "temperature", 4000))

\* C11: in the row-level evaluator a referenced column that is absent, null
\* or not readable as a number never raises and never sets the alert by
\* itself: its predicate does not fire and the other predicates of the row
\* (battery, gate columns, EPAN water depth < 15, AWS thresholds) are still
\* evaluated, so a row is flagged exactly when one of them fires on a usable
\* cell.
C11_UnusableCellsAreQuiet ==
    /\ hl_error = ""
    /\ \A i \in Displayed : Flagged(i) <=> SomePredicateFires(daily_df.rows[i])
    /\ \A i \in Displayed : Flagged(i) \/ Plain(i)

\* a Gate view whose battery text and g1 null are unusable in both rows:
\* the row with an unreadable g3 stays plain, the row with g3 = 0.01 is flagged
C11_Witness ==
    /\ station_name = "Gate"
    /\ daily_df.columns = <<"batt_volt", "g1", "gate_id", "g3">>
    /\ Len(styled) = 2
    /\ daily_df.rows[1] = [batt_volt |-> Txt("abc"), g1 |-> Null,
                            gate_id |-> Num(700), g3 |-> Txt("abc")]
    /\ daily_df.rows[2] = [batt_volt |-> Txt("abc"), g1 |-> Null,
                            gate_id |-> Num(700), g3 |-> Num(1)]
    /\ Plain(1) /\ Flagged(2)
    /\ hl_error = ""

\* the rows of the row set whose cell in the rule's column is a number
\* outside [min, max]
CcInvalid ==
    {i \in 1..Len(cc_df.rows) :
        LET r == CONSTRAINTS[cc_table]
            c == cc_df.rows[i][r.column]
        IN c.k = "num" /\ (c.v < r.min_val \/ c.v > r.max_val)}

\* C12: check_constraints returns exactly one summary message for the
\* registered rule of the table when its column is in the rows and holds an
\* out-of-range value, and the message carries the count of all invalid
\* rows; a table without rules and a rule whose column is absent give no
\* message and no error.
C12_OneSummaryPerRule ==
    /\ cc_error = ""
    /\ IF CcRuleApplies /\ CcInvalid # {}
       THEN /\ Len(cc_alerts) = 1
            /\ CcMessages = {1}
            /\ cc_alerts[1][10] = Cardinality(CcInvalid)
       ELSE cc_alerts = <<>>

\* gate_data with two rows out of range: one message with the count 2
C12_Witness ==
    /\ cc_table = "gate_data"
    /\ CcRuleApplies
    /\ Len(cc_df.rows) = 2
    /\ cc_df.rows[1]["status"] = Num(1)
    /\ cc_df.rows[2]["status"] = Num(4)
    /\ cc_alerts = <<AlertMsg("gate_data", "status", 2, 3, 2)>>
    /\ cc_error = ""

\* the call carries both dates / both halves of the column filter
Dated == fd_args.start_date # NoDate /\ fd_args.end_date # NoDate
Filtered == fd_args.filter_column # NoColumn /\ fd_args.filter_value # NoValue

\* C13: fetch_data with start_date later than end_date returns an empty
\* result set and no error, for every table and with or without a column
\* filter.
C13_ReversedRangeIsEmpty ==
    (fd_calls > 0 /\ Dated /\ fd_args.start_date > fd_args.end_date)
        => (fd_result.rows = <<>> /\ fd_raised = "")

\* river_data asked for day 2 to day 1, the store answering: no rows, the
\* columns of the table
C13_Witness ==
    /\ fd_calls > 0
    /\ fd_args.table_name = "river_data"
    /\ fd_args.start_date = 2 /\ fd_args.end_date = 1
    /\ fd_args.date_column = "data_date"
    /\ ~fd_failed
    /\ fd_result = [columns |-> FullColumns, rows |-> <<>>]
    /\ fd_raised = ""

\* the rows of the table that pass every predicate the call fully specifies
Selected ==
    {r \in Range(Store[fd_args.table_name].rows) :
        /\ Dated => (fd_args.start_date <= r[fd_args.date_column]
                     /\ r[fd_args.date_column] <= fd_args.end_date)
        /\ Filtered => r[fd_args.filter_column] = fd_args.filter_value}

\* C14: the query fetch_data builds holds the date-range predicate exactly
\* when both dates are given and the equality predicate exactly when both
\* filter column and filter value are given; the predicates present are
\* joined with AND and there is no WHERE without one; the rows returned are
\* exactly the rows of the table that pass every present predicate.
C14_PredicatesAsSpecified ==
    /\ fd_sent # <<>> =>
          LET text == fd_sent[1]
              where == {i \in 1..Len(text) : text[i] = "WHERE"}
              between == {i \in 1..Len(text) : text[i] = BetweenOp}
              equals == {i \in 1..Len(text) : text[i] = EqualsOp}
              ands == {i \in 1..Len(text) : text[i] = "AND"}
          IN /\ Cardinality(between) = IF Dated THEN 1 ELSE 0
             /\ Cardinality(equals) = IF Filtered THEN 1 ELSE 0
             /\ Cardinality(where) = IF Dated \/ Filtered THEN 1 ELSE 0
             /\ Cardinality(ands) = IF Dated /\ Filtered THEN 1 ELSE 0
             /\ where \subseteq {3}
             /\ \A i \in between : text[i - 1] = fd_args.date_column
             /\ \A i \in equals : text[i - 1] = fd_args.filter_column
             /\ \A i \in ands : i - 1 \in between /\ i + 2 \in equals
    /\ (fd_calls > 0 /\ ~fd_failed) =>
          /\ Range(fd_result.rows) = Selected
          /\ Len(fd_result.rows) = Cardinality(Selected)

\* river_data asked for day 1 to day 1 at location G1: both predicates in
\* the query, the two readings of day 1 returned
C14_Witness ==
    /\ fd_calls > 0
    /\ ~fd_failed
    /\ fd_args = [table_name |-> "river_data", start_date |-> 1, end_date |-> 1,
                  date_column |-> "data_date", filter_column |-> "location_id",
                  filter_value |-> G1]
    /\ fd_sent = << <<"SELECT * FROM", "river_data", "WHERE", "data_date", BetweenOp,
                     "AND", "location_id", EqualsOp, "ORDER BY", "data_date">> >>
    /\ Len(fd_result.rows) = 2

\* the rows among the first n of the view that are highlighted, in order
RECURSIVE HighlightedRows(_)
HighlightedRows(n) ==
    IF n = 0 THEN <<>>
    ELSE IF Flagged(n) THEN Append(HighlightedRows(n - 1), daily_df.rows[n])
    ELSE HighlightedRows(n - 1)

\* C15: the "alerts for this date" collection of a station view holds
\* exactly the rows of its daily row set that the evaluator highlighted,
\* each once and in display order; it is empty when the pass starts and
\* holds no row of an earlier pass.
C15_AlertRowsAreHighlightedRows ==
    /\ alert_rows = HighlightedRows(Len(styled))
    /\ Len(styled) = 0 => alert_rows = <<>>
    /\ Len(alert_rows) <= Len(daily_df.rows)

\* an EPAN view after its pass: the low-battery row, then the low-depth
\* row, both highlighted and collected in that order
C15_Witness ==
    /\ station_name = "EPAN"
    /\ daily_df.columns = <<"batt_volt", "epan_water_depth">>
    /\ Len(styled) = 2
    /\ daily_df.rows[1] = [batt_volt |-> Num(1040), epan_water_depth |-> Num(1500)]
    /\ daily_df.rows[2] = [batt_volt |-> Num(1050), epan_water_depth |-> Num(1499)]
    /\ Flagged(1) /\ Flagged(2)
    /\ alert_rows = <<daily_df.rows[1], daily_df.rows[2]>>

====
